---------------------------- MODULE Spec2Model ----------------------------
(***************************************************************************)
(* A model of the oPL parser (src/src/parser.rs): a Pratt parser with a    *)
(* two-token lookahead cursor over a token stream.  The parser's methods   *)
(* are operators over the parser's state (a record with the fields of the  *)
(* struct Parser); the state machine steps through the loop of             *)
(* parse_program.                                                          *)
(***************************************************************************)
EXTENDS Integers, Sequences, FiniteSets, TLC

VARIABLES
    tokens,     \* the token stream the lexer hands out (without the sentinel)
    lexer,      \* Parser.lexer: how many tokens the lexer has handed out
    curr,       \* Parser.curr
    peek,       \* Parser.peek
    errors,     \* Parser.errors
    program,    \* parse_program's local `program`
    status,     \* where parse_program is: "parsing", "done" or "abort" (a panic)
    advances,   \* history: the calls of next_token made so far
    advAtEnd,   \* history: the calls of next_token made with curr at the sentinel of the stream
    iters,      \* history: iterations of parse_program's loop
    stuck,      \* history: an inner loop ran an iteration without a call of next_token
    silent      \* history: a parse_statement call returned None and appended no error

vars == <<tokens, lexer, curr, peek, errors, program, status,
          advances, advAtEnd, iters, stuck, silent>>

-----------------------------------------------------------------------------
(* Bounds of the input families.                                           *)

MaxLen == 3
MaxOps == 3
MaxStmts == 2
MaxParams == 2
MaxVariants == 2
MaxFields == 2
MaxDepth == 1
MaxArgs == 2

-----------------------------------------------------------------------------
(* Tokens (crate::lexer::Token as the parser matches on it).  A token is   *)
(* its text; Identifier(_), IntegerLiteral(_), FloatLiteral(_) and         *)
(* Boolean(_) are the sets of texts carrying that payload.                 *)

End == "End"

LowerIdentifiers == {"a", "b", "c", "d", "e", "f", "g", "h", "t", "x", "y"}
UpperIdentifiers == {"N", "T", "V", "W", "U"}
OtherIdentifiers == {"_u"}
Identifiers == LowerIdentifiers \cup UpperIdentifiers \cup OtherIdentifiers

IntegerLiterals == {"1", "2", "3", "5", "9223372036854775808"}
FloatLiterals == {"2.5"}
Booleans == {"true", "false"}

BuiltInTypeTokens ==
    {"String", "Int", "Float", "Char", "Bool", "List", "Option", "Result", "Map", "Unit"}

IsIdentifier(tok) == tok \in Identifiers

\* char::is_lowercase / is_uppercase of the first character of an identifier
FirstCharIsLowercase(name) == name \in LowerIdentifiers
FirstCharIsUppercase(name) == name \in UpperIdentifiers

\* str::parse::<i64>: the value, or Err for a text beyond i64::MAX
ParseI64(s) ==
    CASE s = "1" -> [ok |-> TRUE, value |-> 1]
      [] s = "2" -> [ok |-> TRUE, value |-> 2]
      [] s = "3" -> [ok |-> TRUE, value |-> 3]
      [] s = "5" -> [ok |-> TRUE, value |-> 5]
      [] OTHER   -> [ok |-> FALSE, value |-> 0]

\* str::parse::<f64>: the value in tenths
ParseF64(s) ==
    CASE s = "2.5" -> [ok |-> TRUE, value |-> 25]
      [] OTHER     -> [ok |-> FALSE, value |-> 0]

ParseBool(s) == s = "true"

-----------------------------------------------------------------------------
(* Precedence and token_to_precedence.                                     *)

Lowest == 0
Pipe == 1
Equals == 2
LessGreater == 3
Sum == 4
Product == 5
Cons == 6
Prefix == 7
BitwiseOp == 8
Call == 9

token_to_precedence(token) ==
    CASE token = "|>" -> Pipe
      [] token \in {"==", "/="} -> Equals
      [] token \in {"<", ">", ">=", "<="} -> LessGreater
      [] token \in {"+", "-"} -> Sum
      [] token \in {"*", "/", ".", "%"} -> Product
      [] token \in {"::", "++"} -> Cons
      [] token \in {"&", "^"} -> BitwiseOp
      [] token = "(" -> Call
      [] OTHER -> Lowest

-----------------------------------------------------------------------------
(* The AST (crate::ast as the parser builds it) and Option's None.          *)

None == [t |-> "None"]
SomeOf(v) == [t |-> "Some", v |-> v]

ExprIdentifier(tok) == [t |-> "Identifier", name |-> tok]
ExprLiteral(kind, value) == [t |-> "Literal", kind |-> kind, value |-> value]
ExprPrefix(op, right) == [t |-> "Prefix", op |-> op, right |-> right]
ExprInfix(op, left, right) == [t |-> "Infix", op |-> op, left |-> left, right |-> right]
ExprIf(condition, consequence, alternative) ==
    [t |-> "If", condition |-> condition, consequence |-> consequence,
     alternative |-> alternative]
ExprFunction(parameters, body) ==
    [t |-> "Function", parameters |-> parameters, body |-> body]
ExprCall(function, arguments) ==
    [t |-> "Call", function |-> function, arguments |-> arguments]
ExprOptionSome(e) == [t |-> "OptionSome", value |-> e]
ExprOptionNone == [t |-> "OptionNone"]
ExprResultOk(e) == [t |-> "ResultOk", value |-> e]
ExprResultErr(e) == [t |-> "ResultErr", value |-> e]

StmtLet(ident, expr) == [t |-> "Let", name |-> ident, value |-> expr]
StmtReturn(expr) == [t |-> "Return", value |-> expr]
StmtExpression(expr) == [t |-> "Expression", value |-> expr]
StmtType(name, def) == [t |-> "Type", name |-> name, def |-> def]

TypeAlias(ref) == [t |-> "Alias", ref |-> ref]
TypeRecord(fields) == [t |-> "Record", fields |-> fields]
TypeUnion(variants) == [t |-> "Union", variants |-> variants]

BuiltIn(c) == [t |-> "BuiltIn", c |-> c]
Custom(tok) == [t |-> "Custom", ident |-> tok]
Alias(name, parameters) == [t |-> "TypeRef", name |-> name, parameters |-> parameters]

UnexpectedToken(want, got) == [t |-> "UnexpectedToken", want |-> want, got |-> got]
Log(msg, arg) == [t |-> "Log", msg |-> msg, arg |-> arg]

-----------------------------------------------------------------------------
(* The cursor.                                                             *)

\* Lexer::advance: the next token of the stream, the sentinel once it is exhausted
LexerAdvance(n) == IF n < Len(tokens) THEN tokens[n + 1] ELSE End

\* a parser state and the value a method returns with it
R(p, r) == [p |-> p, r |-> r]

next_token(p) ==
    [p EXCEPT !.curr = p.peek,
              !.peek = LexerAdvance(p.lexer),
              !.lexer = p.lexer + 1,
              !.advances = p.advances + 1,
              !.advAtEnd = IF p.curr = End /\ p.advances >= 2
                           THEN p.advAtEnd + 1 ELSE p.advAtEnd]

push_error(p, e) == [p EXCEPT !.errors = Append(p.errors, e)]

parse_identifier(p) == IF IsIdentifier(p.curr) THEN SomeOf(p.curr) ELSE None

curr_token_is(p, token) == p.curr = token

peek_token_is(p, token) == p.peek = token

peek_error(p, token) == push_error(p, UnexpectedToken(token, p.peek))

expect_peek(p, token) ==
    IF peek_token_is(p, token)
    THEN R(next_token(p), TRUE)
    ELSE R(peek_error(p, token), FALSE)

curr_precedence(p) == token_to_precedence(p.curr)

no_prefix_parse_fn_error(p, tok) ==
    push_error(p, Log("No prefix parse function found", tok))

\* Option::unwrap on None: the thread panics and the pass is abandoned
Panic(p) == [p EXCEPT !.panicked = TRUE]

-----------------------------------------------------------------------------
(* The parser's methods.  Each takes the parser state p and returns R(p',  *)
(* value).  A panic unwinds through every caller: a method that finds the  *)
(* state panicked returns at once.  parse_expression and parse_statement   *)
(* are entered through Enter, which closes the recursion of the methods.   *)
(* Bind(v, LAMBDA x : e) is `let x = v; e`.                                *)

Bind(v, K(_)) == K(v)

RECURSIVE Enter(_, _, _)

parse_prefix_expression(p) ==
    Bind(Enter("parse_expression", next_token(p), Prefix), LAMBDA r :
        IF r.r = None THEN r ELSE R(r.p, ExprPrefix(p.curr, r.r)))

\* the operators parse_infix_expression maps to an Infix
InfixOperators ==
    {"+", "-", "*", "/", "==", "/=", "<", ">", ">=", "<=", "|>", "::", "++"}

parse_infix_expression(p, left) ==
    IF p.curr \notin InfixOperators THEN R(p, None)
    ELSE Bind(Enter("parse_expression", next_token(p), curr_precedence(p)), LAMBDA r :
             IF r.r = None THEN r ELSE R(r.p, ExprInfix(p.curr, left, r.r)))

\* `while self.peek_token_is(Token::Comma)` of parse_call_expression
RECURSIVE ArgumentLoop(_, _)
\* parse_call_expression pushing the arguments after the first at the front
ArgumentLoopPushFront(p, arguments) ==
    IF peek_token_is(p, ",")
    THEN Bind(Enter("parse_expression", next_token(next_token(p)), Lowest), LAMBDA r :
             IF r.r = None THEN R(r.p, None)
             ELSE ArgumentLoop(r.p, <<r.r>> \o arguments))
    ELSE R(p, SomeOf(arguments))

ArgumentLoop(p, arguments) ==
    IF peek_token_is(p, ",")
    THEN Bind(Enter("parse_expression", next_token(next_token(p)), Lowest), LAMBDA r :
             IF r.r = None THEN R(r.p, None)
             ELSE IF r.p.advances = p.advances
             THEN R([r.p EXCEPT !.stuck = TRUE], None)
             ELSE ArgumentLoop(r.p, Append(arguments, r.r)))
    ELSE R(p, SomeOf(arguments))

parse_call_expression(p, function) ==
    IF peek_token_is(p, ")")
    THEN R(next_token(p), ExprCall(function, <<>>))
    ELSE Bind(Enter("parse_expression", next_token(p), Lowest), LAMBDA first :
         IF first.r = None THEN R(first.p, None)
         ELSE Bind(ArgumentLoop(first.p, <<first.r>>), LAMBDA rest :
              IF rest.r = None THEN R(rest.p, None)
              ELSE Bind(expect_peek(rest.p, ")"), LAMBDA e :
                   IF ~e.r THEN R(e.p, None)
                   ELSE R(e.p, ExprCall(function, rest.r.v)))))

parse_some_expression(p) ==
    Bind(Enter("parse_expression", next_token(p), Lowest), LAMBDA r :
        IF r.r = None THEN r ELSE R(r.p, ExprOptionSome(r.r)))

parse_ok_expression(p) ==
    Bind(Enter("parse_expression", next_token(p), Lowest), LAMBDA r :
        IF r.r = None THEN r ELSE R(r.p, ExprResultOk(r.r)))

parse_error_expression(p) ==
    Bind(Enter("parse_expression", next_token(p), Lowest), LAMBDA r :
        IF r.r = None THEN r ELSE R(r.p, ExprResultErr(r.r)))

\* the cursor past a semicolon in peek, as it is otherwise
SkipSemiColonAfterBody(p) == IF peek_token_is(p, ";") THEN next_token(p) ELSE p

\* `while !curr_token_is(RightBrace) && !curr_token_is(End)` of parse_block_statement
RECURSIVE BlockLoop(_, _)
BlockLoop(p, statements) ==
    IF ~curr_token_is(p, "}") /\ ~curr_token_is(p, End)
    THEN Bind(Enter("parse_statement", p, None), LAMBDA r :
         IF r.p.panicked THEN R(r.p, statements)
         ELSE Bind(next_token(r.p), LAMBDA q :
              IF q.advances = p.advances
              THEN R([q EXCEPT !.stuck = TRUE], statements)
              ELSE BlockLoop(q, IF r.r = None THEN statements
                                ELSE Append(statements, r.r))))
    ELSE R(p, statements)

parse_block_statement(p) ==
    Bind(BlockLoop(next_token(p), <<>>), LAMBDA l :
        IF l.p.panicked THEN l
        ELSE IF curr_token_is(l.p, "}") THEN R(next_token(l.p), l.r)
        ELSE l)

\* `while self.peek != Token::Arrow` of parse_function_literal
RECURSIVE ParameterLoop(_, _)
ParameterLoop(p, params) ==
    IF p.peek # "->"
    THEN Bind(next_token(p), LAMBDA q :
         IF IsIdentifier(q.curr) \/ q.curr = "Unit"
         THEN Bind(IF q.peek = "," THEN next_token(q) ELSE q, LAMBDA s :
              IF s.advances = p.advances
              THEN R([s EXCEPT !.stuck = TRUE], None)
              ELSE ParameterLoop(s, Append(params, q.curr)))
         ELSE R(push_error(q, Log("expected identifier in function parameters", q.curr)),
                None))
    ELSE R(p, SomeOf(params))

\* the validation of a block body: the Function, or the error pushed
FunctionBlockBody(p, params, block) ==
    IF block # <<>>
    THEN IF block[Len(block)].t = "Return"
         THEN R(p, ExprFunction(params, block))
         ELSE IF block[Len(block)].t = "Expression"
         THEN IF peek_token_is(p, ";")
              THEN R(push_error(p,
                       Log("Function block's last expression must not end with semicolon",
                           "")), None)
              ELSE R(p, ExprFunction(params, block))
         ELSE R(push_error(p,
                  Log("Function block must end with expression or return statement", "")),
                None)
    ELSE R(push_error(p, Log("Empty function body", "")), None)

\* the single-line body accepted whether or not a semicolon follows it
FunctionSingleLineBodyUnchecked(p, params) ==
    Bind(Enter("parse_expression", p, Lowest), LAMBDA expr :
        IF expr.r = None THEN R(expr.p, None)
        ELSE R(SkipSemiColonAfterBody(expr.p),
               ExprFunction(params, <<StmtExpression(expr.r)>>)))

\* the single-line body: an expression and its semicolon
FunctionSingleLineBody(p, params) ==
    Bind(Enter("parse_expression", p, Lowest), LAMBDA expr :
        IF expr.r = None THEN R(expr.p, None)
        ELSE IF ~peek_token_is(expr.p, ";")
        THEN R(push_error(expr.p,
                 Log("Single-line function body must end with semicolon", "")), None)
        ELSE R(next_token(expr.p), ExprFunction(params, <<StmtExpression(expr.r)>>)))

\* the body of a function literal, with curr on the first token after the arrow
FunctionBody(p, params) ==
    IF curr_token_is(p, "{")
    THEN Bind(parse_block_statement(p), LAMBDA block :
             IF block.p.panicked THEN R(block.p, None)
             ELSE FunctionBlockBody(block.p, params, block.r))
    ELSE FunctionSingleLineBody(p, params)

parse_function_literal(p) ==
    Bind(ParameterLoop(p, <<>>), LAMBDA params :
        IF params.r = None THEN R(params.p, None)
        ELSE Bind(expect_peek(params.p, "->"), LAMBDA e :
             IF ~e.r THEN R(e.p, None)
             ELSE FunctionBody(next_token(e.p), params.r.v)))

\* the `else` branch of parse_if_expression
IfAlternative(p, condition, consequence) ==
    Bind(expect_peek(next_token(p), "{"), LAMBDA e :
        IF ~e.r THEN R(e.p, None)
        ELSE Bind(parse_block_statement(next_token(e.p)), LAMBDA alternative :
             IF alternative.p.panicked THEN R(alternative.p, None)
             ELSE R(alternative.p,
                    ExprIf(condition, consequence, SomeOf(alternative.r)))))

parse_if_expression(p) ==
    Bind(Enter("parse_expression", next_token(p), Lowest), LAMBDA condition :
        IF condition.r = None THEN R(condition.p, None)
        ELSE Bind(expect_peek(condition.p, "{"), LAMBDA e :
             IF ~e.r THEN R(e.p, None)
             ELSE Bind(parse_block_statement(next_token(e.p)), LAMBDA consequence :
                  IF consequence.p.panicked THEN R(consequence.p, None)
                  ELSE IF peek_token_is(consequence.p, "else")
                  THEN IfAlternative(consequence.p, condition.r, consequence.r)
                  ELSE R(consequence.p, ExprIf(condition.r, consequence.r, None)))))

\* what an arm of `let mut left = match &self.curr {...}` leaves: the left operand,
\* or a return of None from parse_expression
Left(r) == [p |-> r.p, r |-> r.r, returned |-> FALSE]
ReturnNone(p) == [p |-> p, r |-> None, returned |-> TRUE]

\* `( expr )`
GroupedExpression(p) ==
    Bind(Enter("parse_expression", next_token(p), Lowest), LAMBDA expr :
        IF expr.p.panicked THEN ReturnNone(expr.p)
        ELSE Bind(expect_peek(expr.p, ")"), LAMBDA e :
             IF ~e.r THEN ReturnNone(e.p) ELSE Left(R(e.p, expr.r))))

\* `let mut left = match &self.curr {...}` of parse_expression
LeftOperand(p) ==
    IF IsIdentifier(p.curr) THEN Left(R(p, ExprIdentifier(parse_identifier(p).v)))
    ELSE IF p.curr \in BuiltInTypeTokens THEN Left(R(p, ExprIdentifier(p.curr)))
    ELSE IF p.curr \in IntegerLiterals
    THEN IF ParseI64(p.curr).ok
         THEN Left(R(p, ExprLiteral("Integer", ParseI64(p.curr).value)))
         ELSE ReturnNone(push_error(p, Log("Could not parse as integer", p.curr)))
    ELSE IF p.curr \in FloatLiterals
    THEN IF ParseF64(p.curr).ok
         THEN Left(R(p, ExprLiteral("Float", ParseF64(p.curr).value)))
         ELSE ReturnNone(push_error(p, Log("Could not parse as float", p.curr)))
    ELSE IF p.curr \in Booleans
    THEN Left(R(p, ExprLiteral("Boolean", ParseBool(p.curr))))
    ELSE IF p.curr \in {"!", "-", "+"} THEN Left(parse_prefix_expression(p))
    ELSE IF p.curr = "(" THEN GroupedExpression(p)
    ELSE IF p.curr = "if" THEN Left(parse_if_expression(p))
    ELSE IF p.curr = "fn" THEN Left(parse_function_literal(p))
    ELSE IF p.curr = "Some" THEN Left(parse_some_expression(p))
    ELSE IF p.curr = "None" THEN Left(R(p, ExprOptionNone))
    ELSE IF p.curr = "Ok" THEN Left(parse_ok_expression(p))
    ELSE IF p.curr = "Error" THEN Left(parse_error_expression(p))
    ELSE ReturnNone(no_prefix_parse_fn_error(p, p.curr))

\* the tokens the infix loop of parse_expression dispatches to parse_infix_expression
InfixLoopOperators ==
    {"+", "-", "*", "/", "==", "/=", "<", ">", "|>", "::", "++"}

\* the infix loop going on at an operator of the precedence it was entered with
InfixLoopConditionInclusive(p, precedence) ==
    ~peek_token_is(p, ";") /\ precedence <= token_to_precedence(p.peek)

\* `while !peek_token_is(SemiColon) && precedence < token_to_precedence(peek)`
InfixLoopCondition(p, precedence) ==
    ~peek_token_is(p, ";") /\ precedence < token_to_precedence(p.peek)

\* the infix loop of parse_expression, entered with `left`
RECURSIVE InfixLoop(_, _, _)
InfixLoop(p, left, precedence) ==
    IF p.panicked THEN R(p, None)
    ELSE IF InfixLoopCondition(p, precedence)
    THEN IF p.peek \in InfixLoopOperators
         THEN IF left = None THEN R(Panic(next_token(p)), None)
              ELSE Bind(parse_infix_expression(next_token(p), left), LAMBDA r :
                       InfixLoop(r.p, r.r, precedence))
         ELSE IF p.peek = "("
         THEN IF left = None THEN R(Panic(next_token(p)), None)
              ELSE Bind(parse_call_expression(next_token(p), left), LAMBDA r :
                       InfixLoop(r.p, r.r, precedence))
         ELSE R(p, left)
    ELSE R(p, left)

parse_expression(p, precedence) ==
    Bind(LeftOperand(p), LAMBDA left :
        IF left.returned THEN R(left.p, None)
        ELSE InfixLoop(left.p, left.r, precedence))

-----------------------------------------------------------------------------
(* Type declarations.                                                      *)

\* the uppercase tokens with no parameter, and the parametrized constructors
PrimitiveTypeTokens == {"Int", "Float", "String", "Char", "Bool", "Unit"}
ParametrizedTypeTokens == {"List", "Option", "Result", "Map"}

\* the lowercase primitive tokens of record fields and the Constructor of each
RecordPrimitiveTokens == {"int", "float", "string", "char", "bool", "unit"}
RecordPrimitiveConstructor(tok) ==
    CASE tok = "int" -> "Int"
      [] tok = "float" -> "Float"
      [] tok = "string" -> "String"
      [] tok = "char" -> "Char"
      [] tok = "bool" -> "Bool"
      [] tok = "unit" -> "Unit"

\* the arm `Token::Identifier(name)` of both annotation parsers
CustomTypeIdentifier(p) ==
    IF FirstCharIsLowercase(p.curr)
    THEN R(push_error(p,
             Log("Custom type identifier must start with uppercase letter", p.curr)),
           None)
    ELSE R(p, Alias(Custom(p.curr), <<>>))

RECURSIVE parse_type_annotation(_)
parse_type_annotation(p) ==
    IF p.curr \in PrimitiveTypeTokens THEN R(p, Alias(BuiltIn(p.curr), <<>>))
    ELSE IF p.curr \in ParametrizedTypeTokens
    THEN Bind(parse_type_annotation(next_token(p)), LAMBDA param :
             IF param.r = None THEN param
             ELSE R(param.p, Alias(BuiltIn(p.curr), <<param.r>>)))
    ELSE IF IsIdentifier(p.curr) THEN CustomTypeIdentifier(p)
    ELSE R(push_error(p, Log("Expected type name", p.curr)), None)

RECURSIVE parse_record_type_annotation(_)
parse_record_type_annotation(p) ==
    IF p.curr \in RecordPrimitiveTokens
    THEN R(p, Alias(BuiltIn(RecordPrimitiveConstructor(p.curr)), <<>>))
    ELSE IF p.curr = "List"
    THEN Bind(parse_record_type_annotation(next_token(p)), LAMBDA param :
             IF param.r = None THEN param
             ELSE R(param.p, Alias(BuiltIn("List"), <<param.r>>)))
    ELSE IF IsIdentifier(p.curr) THEN CustomTypeIdentifier(p)
    ELSE R(push_error(p, Log("Expected type name", p.curr)), None)

parse_type_alias(p) ==
    Bind(parse_type_annotation(p), LAMBDA type_ann :
        IF type_ann.r = None THEN type_ann
        ELSE Bind(expect_peek(type_ann.p, ";"), LAMBDA e :
             IF ~e.r THEN R(e.p, None) ELSE R(e.p, TypeAlias(type_ann.r))))

\* the `loop` of parse_union_type, entered with curr on `|`; UnionNext is its
\* tail from `variants.push(...)` on, p0 the state the iteration began in
RECURSIVE UnionLoop(_, _)
UnionNext(p0, p, variants) ==
    IF ~peek_token_is(p, "|") THEN R(p, SomeOf(variants))
    ELSE IF p.advances = p0.advances
    THEN R([p EXCEPT !.stuck = TRUE], None)
    ELSE UnionLoop(next_token(p), variants)

\* parse_union_type pushing each variant at the front of `variants`
UnionVariantPushFront(p0, q, variants) ==
    IF IsIdentifier(q.curr)
    THEN IF peek_token_is(q, "of")
         THEN Bind(parse_type_annotation(next_token(next_token(q))), LAMBDA ty :
                  IF ty.r = None THEN R(ty.p, None)
                  ELSE UnionNext(p0, ty.p, <<(<<q.curr, ty.r>>)>> \o variants))
         ELSE UnionNext(p0, q, <<(<<q.curr, None>>)>> \o variants)
    ELSE R(push_error(q, Log("Expected variant name", q.curr)), None)

UnionVariant(p0, q, variants) ==
    IF IsIdentifier(q.curr)
    THEN IF peek_token_is(q, "of")
         THEN Bind(parse_type_annotation(next_token(next_token(q))), LAMBDA ty :
                  IF ty.r = None THEN R(ty.p, None)
                  ELSE UnionNext(p0, ty.p, Append(variants, <<q.curr, ty.r>>)))
         ELSE UnionNext(p0, q, Append(variants, <<q.curr, None>>))
    ELSE R(push_error(q, Log("Expected variant name", q.curr)), None)

UnionLoop(p, variants) == UnionVariant(p, next_token(p), variants)

parse_union_type(p) ==
    Bind(UnionLoop(p, <<>>), LAMBDA l :
        IF l.r = None THEN l
        ELSE Bind(expect_peek(l.p, ";"), LAMBDA e :
             IF ~e.r THEN R(e.p, None) ELSE R(e.p, TypeUnion(l.r.v))))

\* `while !self.peek_token_is(Token::RightBrace)` of parse_record_type;
\* RecordField is its body with curr on the field name
RECURSIVE RecordLoop(_, _)
RecordField(p0, q, fields) ==
    IF ~IsIdentifier(q.curr)
    THEN R(push_error(q, Log("Expected field name", q.curr)), None)
    ELSE Bind(expect_peek(q, ":"), LAMBDA e :
         IF ~e.r THEN R(e.p, None)
         ELSE Bind(parse_record_type_annotation(next_token(e.p)), LAMBDA type_ann :
              IF type_ann.r = None THEN R(type_ann.p, None)
              ELSE Bind(IF peek_token_is(type_ann.p, ",")
                        THEN next_token(type_ann.p) ELSE type_ann.p, LAMBDA s :
                   IF s.advances = p0.advances
                   THEN R([s EXCEPT !.stuck = TRUE], None)
                   ELSE RecordLoop(s, Append(fields, <<q.curr, type_ann.r>>)))))

RecordLoop(p, fields) ==
    IF ~peek_token_is(p, "}")
    THEN RecordField(p, next_token(p), fields)
    ELSE R(p, SomeOf(fields))

parse_record_type(p) ==
    Bind(RecordLoop(p, <<>>), LAMBDA l :
        IF l.r = None THEN l
        ELSE Bind(expect_peek(l.p, "}"), LAMBDA e1 :
             IF ~e1.r THEN R(e1.p, None)
             ELSE Bind(expect_peek(e1.p, ";"), LAMBDA e2 :
                  IF ~e2.r THEN R(e2.p, None) ELSE R(e2.p, TypeRecord(l.r.v)))))

\* parse_type_statement after `Name =`, with curr on `=`
TypeDefinition(p, name) ==
    IF peek_token_is(p, "|")
    THEN Bind(parse_union_type(next_token(p)), LAMBDA type_def :
             IF type_def.r = None THEN type_def
             ELSE R(type_def.p, StmtType(name, type_def.r)))
    ELSE Bind(next_token(p), LAMBDA s :
         Bind(IF s.curr = "{" THEN parse_record_type(s) ELSE parse_type_alias(s),
              LAMBDA type_def :
                  IF type_def.r = None THEN type_def
                  ELSE R(type_def.p, StmtType(name, type_def.r))))

parse_type_statement(p) ==
    Bind(next_token(p), LAMBDA q :
        IF parse_identifier(q) = None THEN R(q, None)
        ELSE Bind(expect_peek(q, "="), LAMBDA e :
             IF ~e.r THEN R(e.p, None)
             ELSE TypeDefinition(e.p, parse_identifier(q).v)))

-----------------------------------------------------------------------------
(* Statements.                                                             *)

\* `if self.peek_token_is(Token::SemiColon) { self.next_token(); }`
SkipSemiColon(p) == IF peek_token_is(p, ";") THEN next_token(p) ELSE p

parse_return_statement(p) ==
    Bind(Enter("parse_expression", next_token(p), Lowest), LAMBDA expr :
        IF expr.r = None THEN R(expr.p, None)
        ELSE R(SkipSemiColon(expr.p), StmtReturn(expr.r)))

parse_let_statement(p) ==
    IF ~IsIdentifier(p.peek) THEN R(p, None)
    ELSE Bind(next_token(p), LAMBDA q :
         IF parse_identifier(q) = None THEN R(q, None)
         ELSE Bind(expect_peek(q, "="), LAMBDA e :
              IF ~e.r THEN R(e.p, None)
              ELSE Bind(Enter("parse_expression", next_token(e.p), Lowest), LAMBDA expr :
                   IF expr.r = None THEN R(expr.p, None)
                   ELSE R(SkipSemiColon(expr.p),
                          StmtLet(parse_identifier(q).v, expr.r)))))

parse_expression_statement(p) ==
    Bind(Enter("parse_expression", p, Lowest), LAMBDA expr :
        IF expr.r = None THEN R(expr.p, None)
        ELSE R(SkipSemiColon(expr.p), StmtExpression(expr.r)))

\* the dispatch of parse_statement
StatementDispatch(p) ==
    CASE p.curr = "let" -> parse_let_statement(p)
      [] p.curr = "return" -> parse_return_statement(p)
      [] p.curr = "type" -> parse_type_statement(p)
      [] OTHER -> parse_expression_statement(p)

\* parse_statement, with the history of a failure that appended no error
parse_statement(p) ==
    Bind(StatementDispatch(p), LAMBDA r :
        IF r.r = None /\ ~r.p.panicked /\ Len(r.p.errors) = Len(p.errors)
        THEN R([r.p EXCEPT !.silent = TRUE], None)
        ELSE r)

\* the entry of the two methods every other method recurs through
Enter(method, p, arg) ==
    IF method = "parse_expression" THEN parse_expression(p, arg)
    ELSE parse_statement(p)

-----------------------------------------------------------------------------
(* The input token streams: every short stream over RawAlphabet, and the   *)
(* streams of the grammar's forms (operator chains, if-expressions, block  *)
(* function literals, calls, type declarations), each form with the AST    *)
(* the grammar gives it.                                                    *)

RECURSIVE Flatten(_)
Flatten(ss) == IF ss = <<>> THEN <<>> ELSE Head(ss) \o Flatten(Tail(ss))

SeqsUpTo(S, n) == UNION {[1..k -> S] : k \in 0..n}

RawAlphabet ==
    {"let", "type", "return", "=", ";", "x", "1", "+", "-", "(", ")",
     "fn", "->", "{", "}", "if"}
RawStreams == SeqsUpTo(RawAlphabet, MaxLen)

\* a1 op1 a2 ... opn a(n+1)
Operands == <<"a", "b", "c", "d", "e", "f">>
BinaryOperators ==
    {"|>", "==", "/=", "<", ">", "<=", ">=", "+", "-", "*", "/", "%", ".", "::", "++"}
BitwiseOperators == {"&", "^"}
ChainOperators ==
    {"|>", "==", "/=", "<", ">", "<=", "+", "-", "*", "/", "::", "++"}
Chain(ops) ==
    [i \in 1..(2 * Len(ops) + 1) |->
        IF i % 2 = 1 THEN Operands[(i + 1) \div 2] ELSE ops[i \div 2]]
ChainStreams ==
    {Chain(<<op>>) : op \in BinaryOperators \cup BitwiseOperators}
    \cup {Chain(ops) : ops \in UNION {[1..k -> ChainOperators] : k \in 2..MaxOps}}

\* the statements of a block: the tokens and the Statement they stand for
BlockStatements ==
    {[toks |-> <<"a">>, ast |-> StmtExpression(ExprIdentifier("a")), semi |-> FALSE],
     [toks |-> <<"b", ";">>, ast |-> StmtExpression(ExprIdentifier("b")), semi |-> TRUE],
     [toks |-> <<"return", "c", ";">>, ast |-> StmtReturn(ExprIdentifier("c")),
      semi |-> TRUE],
     [toks |-> <<"let", "y", "=", "1", ";">>,
      ast |-> StmtLet("y", ExprLiteral("Integer", 1)), semi |-> TRUE]}
Blocks == SeqsUpTo(BlockStatements, MaxStmts)
BlockTokens(b) == <<"{">> \o Flatten([i \in 1..Len(b) |-> b[i].toks]) \o <<"}">>
BlockAst(b) == [i \in 1..Len(b) |-> b[i].ast]

\* if c { s1 ... sn } [else { t1 ... tm }]
IfConditions ==
    {[toks |-> <<"x">>, ast |-> ExprIdentifier("x")],
     [toks |-> <<"x", "<", "1">>,
      ast |-> ExprInfix("<", ExprIdentifier("x"), ExprLiteral("Integer", 1))]}
IfForms ==
    [condition : IfConditions, consequence : Blocks,
     alternative : {None} \cup {SomeOf(b) : b \in Blocks}]
IfTokens(f) ==
    <<"if">> \o f.condition.toks \o BlockTokens(f.consequence)
    \o (IF f.alternative = None THEN <<>>
        ELSE <<"else">> \o BlockTokens(f.alternative.v))
IfAst(f) ==
    ExprIf(f.condition.ast, BlockAst(f.consequence),
           IF f.alternative = None THEN None ELSE SomeOf(BlockAst(f.alternative.v)))
IfStreams == {IfTokens(f) : f \in IfForms}

\* fn p1, ..., pn -> { s1 ... sm } [;]
ParameterLists == SeqsUpTo({"x", "Unit"}, MaxParams)
ParameterTokens(ps) ==
    Flatten([i \in 1..Len(ps) |-> IF i < Len(ps) THEN <<ps[i], ",">> ELSE <<ps[i]>>])
FnForms == [parameters : ParameterLists, body : Blocks, trailer : {<<>>, <<";">>}]
FnTokens(f) ==
    <<"fn">> \o ParameterTokens(f.parameters) \o <<"->">> \o BlockTokens(f.body)
    \o f.trailer
FnStreams == {FnTokens(f) : f \in FnForms}

\* f(a1, ..., an), with and without the closing parenthesis
Arguments ==
    {[toks |-> <<"a">>, ast |-> ExprIdentifier("a")],
     [toks |-> <<"1">>, ast |-> ExprLiteral("Integer", 1)],
     [toks |-> <<"a", "+", "b">>,
      ast |-> ExprInfix("+", ExprIdentifier("a"), ExprIdentifier("b"))]}
\* the call alone, under a prefix operator (-f(..)), as a right operand
\* (a + f(..)), and as the callee of a second call (f(..)(b))
CallShapes == {"plain", "prefix", "operand", "callee"}
CallForms ==
    [arguments : SeqsUpTo(Arguments, MaxArgs), closed : BOOLEAN, shape : CallShapes]
ArgumentTokens(arguments) ==
    Flatten([i \in 1..Len(arguments) |->
               IF i < Len(arguments) THEN arguments[i].toks \o <<",">>
               ELSE arguments[i].toks])
CallTokens(f) ==
    (CASE f.shape = "prefix" -> <<"-">>
       [] f.shape = "operand" -> <<"a", "+">>
       [] OTHER -> <<>>)
    \o <<"f", "(">> \o ArgumentTokens(f.arguments)
    \o (IF f.shape = "callee" THEN <<")", "(", "b">> ELSE <<>>)
    \o (IF f.closed THEN <<")">> ELSE <<>>)
CallAst(f) ==
    CASE f.shape = "prefix" ->
           ExprPrefix("-", ExprCall(ExprIdentifier("f"),
                                    [i \in 1..Len(f.arguments) |-> f.arguments[i].ast]))
      [] f.shape = "operand" ->
           ExprInfix("+", ExprIdentifier("a"),
                     ExprCall(ExprIdentifier("f"),
                              [i \in 1..Len(f.arguments) |-> f.arguments[i].ast]))
      [] f.shape = "callee" ->
           ExprCall(ExprCall(ExprIdentifier("f"),
                             [i \in 1..Len(f.arguments) |-> f.arguments[i].ast]),
                    <<ExprIdentifier("b")>>)
      [] OTHER ->
           ExprCall(ExprIdentifier("f"),
                    [i \in 1..Len(f.arguments) |-> f.arguments[i].ast])
CallStreams == {CallTokens(f) : f \in CallForms}

\* fn p1, ..., pn -> e, followed by its semicolon, by nothing, by another
\* token, or by its semicolon and the tokens of a next statement
SingleLineBodies ==
    {[toks |-> <<"x">>, ast |-> ExprIdentifier("x")],
     [toks |-> <<"x", "+", "1">>,
      ast |-> ExprInfix("+", ExprIdentifier("x"), ExprLiteral("Integer", 1))],
     [toks |-> <<"1", "+", "2", "*", "3">>,
      ast |-> ExprInfix("+", ExprLiteral("Integer", 1),
                        ExprInfix("*", ExprLiteral("Integer", 2),
                                  ExprLiteral("Integer", 3)))]}
SingleLineTails ==
    {<<";">>, <<>>, <<")">>, <<";", "y">>, <<";", "(", "y", ")">>, <<";", "+", "y">>}
SingleLineForms ==
    [parameters : ParameterLists, body : SingleLineBodies, tail : SingleLineTails]
SingleLineTokens(f) ==
    <<"fn">> \o ParameterTokens(f.parameters) \o <<"->">> \o f.body.toks \o f.tail
SingleLineAst(f) ==
    StmtExpression(ExprFunction(f.parameters, <<StmtExpression(f.body.ast)>>))
SingleLineStreams == {SingleLineTokens(f) : f \in SingleLineForms}

\* a statement that ends in a block, directly followed by a statement
BlockEndedStatements ==
    {[toks |-> <<"let", "f", "=", "fn", "x", "->", "{", "x", "}">>,
      ast |-> StmtLet("f", ExprFunction(<<"x">>,
                                        <<StmtExpression(ExprIdentifier("x"))>>))],
     [toks |-> <<"fn", "x", "->", "{", "return", "x", ";", "}">>,
      ast |-> StmtExpression(ExprFunction(<<"x">>,
                                          <<StmtReturn(ExprIdentifier("x"))>>))],
     [toks |-> <<"let", "g", "=", "fn", "->", "{", "1", "}">>,
      ast |-> StmtLet("g", ExprFunction(<<>>,
                                        <<StmtExpression(ExprLiteral("Integer", 1))>>))]}
FollowingStatements ==
    {[toks |-> <<"let", "y", "=", "5", ";">>,
      ast |-> StmtLet("y", ExprLiteral("Integer", 5))],
     [toks |-> <<"return", "c", ";">>, ast |-> StmtReturn(ExprIdentifier("c"))],
     [toks |-> <<"b", ";">>, ast |-> StmtExpression(ExprIdentifier("b"))],
     [toks |-> <<"c", "+", "d", ";">>,
      ast |-> StmtExpression(ExprInfix("+", ExprIdentifier("c"), ExprIdentifier("d")))]}
SequenceForms ==
    [first : BlockEndedStatements, rest : SeqsUpTo(FollowingStatements, MaxStmts)]
SequenceTokens(f) ==
    f.first.toks \o Flatten([i \in 1..Len(f.rest) |-> f.rest[i].toks])
SequenceAst(f) == <<f.first.ast>> \o [i \in 1..Len(f.rest) |-> f.rest[i].ast]
SequenceStreams == {SequenceTokens(f) : f \in SequenceForms}

\* type references: the tokens, the TypeReference, and whether the name is a
\* built-in constructor or an uppercase-leading custom identifier throughout
BaseTypeRefs ==
    {[toks |-> <<"Int">>, ast |-> Alias(BuiltIn("Int"), <<>>), valid |-> TRUE],
     [toks |-> <<"Bool">>, ast |-> Alias(BuiltIn("Bool"), <<>>), valid |-> TRUE],
     [toks |-> <<"T">>, ast |-> Alias(Custom("T"), <<>>), valid |-> TRUE],
     [toks |-> <<"t">>, ast |-> Alias(Custom("t"), <<>>), valid |-> FALSE],
     [toks |-> <<"_u">>, ast |-> Alias(Custom("_u"), <<>>), valid |-> FALSE]}
RECURSIVE TypeRefs(_)
TypeRefs(depth) ==
    IF depth = 0 THEN BaseTypeRefs
    ELSE BaseTypeRefs \cup
         {[toks |-> <<c>> \o r.toks, ast |-> Alias(BuiltIn(c), <<r.ast>>),
           valid |-> r.valid] : c \in ParametrizedTypeTokens, r \in TypeRefs(depth - 1)}

\* type N = T [;]
AliasForms == [ref : TypeRefs(MaxDepth), closed : BOOLEAN]
AliasTokens(f) ==
    <<"type", "N", "=">> \o f.ref.toks \o (IF f.closed THEN <<";">> ELSE <<>>)

\* type N = | V1 [of T1] | ... | Vn [of Tn] [;]   (n = 0: type N = | ;)
VariantNames == <<"V", "W", "U", "T">>
VariantPayloads ==
    {None} \cup {SomeOf(r) : r \in {x \in TypeRefs(1) :
                    x.toks \in {<<"Int">>, <<"T">>, <<"t">>, <<"_u">>, <<"List", "Int">>}}}
UnionForms == [payloads : SeqsUpTo(VariantPayloads, MaxVariants), closed : BOOLEAN]
UnionTokens(f) ==
    <<"type", "N", "=">>
    \o (IF f.payloads = <<>> THEN <<"|">> ELSE <<>>)
    \o Flatten([i \in 1..Len(f.payloads) |->
                  <<"|", VariantNames[i]>>
                  \o (IF f.payloads[i] = None THEN <<>>
                      ELSE <<"of">> \o f.payloads[i].v.toks)])
    \o (IF f.closed THEN <<";">> ELSE <<>>)
UnionAst(f) ==
    StmtType("N", TypeUnion([i \in 1..Len(f.payloads) |->
        <<VariantNames[i],
          IF f.payloads[i] = None THEN None ELSE f.payloads[i].v.ast>>]))
UnionWellFormed(f) ==
    /\ f.closed
    /\ Len(f.payloads) >= 1
    /\ \A i \in 1..Len(f.payloads) : f.payloads[i] = None \/ f.payloads[i].v.valid

\* type N = { f1: t1, ..., fn: tn } [;]
FieldNames == <<"f", "g", "h", "x">>
FieldTypes ==
    {[toks |-> <<"int">>, ast |-> Alias(BuiltIn("Int"), <<>>),
      primitive |-> TRUE, valid |-> TRUE],
     [toks |-> <<"string">>, ast |-> Alias(BuiltIn("String"), <<>>),
      primitive |-> TRUE, valid |-> TRUE],
     [toks |-> <<"unit">>, ast |-> Alias(BuiltIn("Unit"), <<>>),
      primitive |-> TRUE, valid |-> TRUE],
     [toks |-> <<"Int">>, ast |-> Alias(BuiltIn("Int"), <<>>),
      primitive |-> FALSE, valid |-> FALSE],
     [toks |-> <<"List", "int">>,
      ast |-> Alias(BuiltIn("List"), <<Alias(BuiltIn("Int"), <<>>)>>),
      primitive |-> FALSE, valid |-> TRUE],
     [toks |-> <<"Option", "int">>,
      ast |-> Alias(BuiltIn("Option"), <<Alias(BuiltIn("Int"), <<>>)>>),
      primitive |-> FALSE, valid |-> TRUE]}
RecordForms == [fields : SeqsUpTo(FieldTypes, MaxFields), closed : BOOLEAN]
RecordTokens(f) ==
    <<"type", "N", "=", "{">>
    \o Flatten([i \in 1..Len(f.fields) |->
                  <<FieldNames[i], ":">> \o f.fields[i].toks
                  \o (IF i < Len(f.fields) THEN <<",">> ELSE <<>>)])
    \o <<"}">> \o (IF f.closed THEN <<";">> ELSE <<>>)
RecordAst(f) ==
    StmtType("N", TypeRecord([i \in 1..Len(f.fields) |->
        <<FieldNames[i], f.fields[i].ast>>]))
RecordWellFormed(f) ==
    f.closed /\ \A i \in 1..Len(f.fields) : f.fields[i].primitive

\* type N = C T T;  a parametrized constructor followed by two type references
SurplusTokens(c) == <<"type", "N", "=", c, "Int", "Int", ";">>

TypeStreams ==
    {AliasTokens(f) : f \in AliasForms} \cup {UnionTokens(f) : f \in UnionForms}
    \cup {RecordTokens(f) : f \in RecordForms}
    \cup {SurplusTokens(c) : c \in ParametrizedTypeTokens}

-----------------------------------------------------------------------------
(* The state machine: Parser::new, then the loop of parse_program.         *)

\* the struct literal of Parser::new
NewParser ==
    [curr |-> End, peek |-> End, lexer |-> 0, errors |-> <<>>,
     advances |-> 0, advAtEnd |-> 0, panicked |-> FALSE, stuck |-> FALSE,
     silent |-> FALSE]

\* Parser::new with a single priming call of next_token
ParserNewPrimedOnce == next_token(NewParser)

\* Parser::new: the struct literal, primed by two calls of next_token
ParserNew == next_token(next_token(NewParser))

\* the parser state held in the variables
Self ==
    [curr |-> curr, peek |-> peek, lexer |-> lexer, errors |-> errors,
     advances |-> advances, advAtEnd |-> advAtEnd, panicked |-> FALSE,
     stuck |-> stuck, silent |-> silent]

Store(p) ==
    /\ curr' = p.curr
    /\ peek' = p.peek
    /\ lexer' = p.lexer
    /\ errors' = p.errors
    /\ advances' = p.advances
    /\ advAtEnd' = p.advAtEnd
    /\ stuck' = p.stuck
    /\ silent' = p.silent

Load(p) ==
    /\ curr = p.curr
    /\ peek = p.peek
    /\ lexer = p.lexer
    /\ errors = p.errors
    /\ advances = p.advances
    /\ advAtEnd = p.advAtEnd
    /\ stuck = p.stuck
    /\ silent = p.silent

InitOn(streams) ==
    /\ tokens \in streams
    /\ Load(ParserNew)
    /\ program = <<>>
    /\ status = "parsing"
    /\ iters = 0

Init ==
    \/ InitOn(RawStreams)
    \/ InitOn(ChainStreams)
    \/ InitOn(IfStreams)
    \/ InitOn(FnStreams)
    \/ InitOn(CallStreams)
    \/ InitOn(TypeStreams)
    \/ InitOn(SingleLineStreams)
    \/ InitOn(SequenceStreams)

\* parse_program without the `self.next_token()` of a failed iteration
ParseProgramIterationNoRecovery(p) ==
    Bind(Enter("parse_statement", p, None), LAMBDA r :
        IF r.p.panicked \/ r.r = None THEN r ELSE R(next_token(r.p), r.r))

\* one iteration of `while self.curr != Token::End` of parse_program
ParseProgramIteration(p) ==
    Bind(Enter("parse_statement", p, None), LAMBDA r :
        IF r.p.panicked THEN r ELSE R(next_token(r.p), r.r))

\* the state an iteration leaves
Commit(r) ==
    /\ Store(r.p)
    /\ program' = IF r.r = None THEN program ELSE Append(program, r.r)
    /\ status' = IF r.p.panicked THEN "abort" ELSE "parsing"

ParseProgramStep ==
    /\ status = "parsing"
    /\ curr # End
    /\ Commit(ParseProgramIteration(Self))
    /\ iters' = iters + 1
    /\ UNCHANGED tokens

\* the loop's exit: parse_program returns `program`
ParseProgramReturn ==
    /\ status = "parsing"
    /\ curr = End
    /\ status' = "done"
    /\ UNCHANGED <<tokens, lexer, curr, peek, errors, program,
                   advances, advAtEnd, iters, stuck, silent>>

Next == ParseProgramStep \/ ParseProgramReturn

Spec == Init /\ [][Next]_vars

\* the same machine on one family of inputs
InitChain == InitOn(ChainStreams)
SpecChain == InitChain /\ [][Next]_vars
InitIf == InitOn(IfStreams)
SpecIf == InitIf /\ [][Next]_vars
InitFn == InitOn(FnStreams)
SpecFn == InitFn /\ [][Next]_vars
InitType == InitOn(TypeStreams)
SpecType == InitType /\ [][Next]_vars
InitCall == InitOn(CallStreams)
SpecCall == InitCall /\ [][Next]_vars
InitSingleLine == InitOn(SingleLineStreams)
SpecSingleLine == InitSingleLine /\ [][Next]_vars
InitSequence == InitOn(SequenceStreams)
SpecSequence == InitSequence /\ [][Next]_vars

-----------------------------------------------------------------------------
(* Properties of the pass.                                                 *)

\* C1: Parser::new and parse_program complete normally on every token
\* stream: no reachable state aborts the pass, the infix loop never unwraps
\* a missing left operand.
C1_NeverAborts == status # "abort"

\* C2: parse_program terminates within a bounded number of steps and returns
\* with curr at the sentinel: every iteration of the top-level loop makes at
\* least one call of next_token with curr before the sentinel (so there are
\* at most as many iterations as tokens), no inner loop runs an iteration
\* without a call of next_token, and at the return curr = End, whatever the
\* number of diagnostics.
C2_TerminatesAtEnd ==
    /\ ~stuck
    /\ iters <= Len(tokens)
    /\ advances - advAtEnd >= iters + 2
    /\ status = "done" => curr = End

\* a pass that went round the top-level loop and the block loop, left
\* diagnostics, and returned
C2_Witness ==
    /\ status = "done"
    /\ curr = End
    /\ iters >= 2
    /\ errors # <<>>
    /\ \E i \in 1..Len(tokens) : tokens[i] = "{"

\* C7: whenever parse_statement returns no statement, the failing sub-parser
\* has appended a diagnostic: the diagnostics list is strictly longer after
\* the call than before it.
C7_FailureLeavesDiagnostic == ~silent

\* C10 as claimed: at the return of parse_program the calls of next_token,
\* the two of Parser::new among them, number the length of the token stream
\* (with or without its sentinel), and none was made with curr at the
\* sentinel.
C10_AdvancesEqualLength ==
    status = "done" =>
        /\ advances \in {Len(tokens), Len(tokens) + 1}
        /\ advAtEnd = 0

\* C10 as amended: at the return of parse_program the calls of next_token
\* number the length of the token stream plus two (the sentinel is shifted
\* through peek and curr), plus the calls made with curr already at the
\* sentinel; the count does not depend on the number of diagnostics.
C10_AdvancesCoverStream ==
    /\ advances - advAtEnd <= Len(tokens) + 2
    /\ status = "done" => advances = Len(tokens) + 2 + advAtEnd

\* a pass that returned with diagnostics after a call of next_token at the sentinel
C10_Witness ==
    /\ status = "done"
    /\ errors # <<>>
    /\ advAtEnd >= 1
    /\ advances = Len(tokens) + 2 + advAtEnd

-----------------------------------------------------------------------------
(* Properties of expressions.                                              *)

\* toks is a chain a1 op1 a2 ... opn a(n+1), n >= 1, with its operators in ops
IsChainOver(toks, ops) ==
    /\ Len(toks) >= 3
    /\ Len(toks) % 2 = 1
    /\ Len(toks) <= 2 * Len(Operands) - 1
    /\ \A i \in 1..Len(toks) :
         IF i % 2 = 1 THEN toks[i] = Operands[(i + 1) \div 2] ELSE toks[i] \in ops

\* the operator of toks[lo..hi] that binds last: the rightmost of the
\* operators of least precedence
LastBinding(toks, lo, hi) ==
    CHOOSE k \in lo..hi :
        /\ k % 2 = 0
        /\ \A j \in lo..hi : j % 2 = 0 =>
             \/ token_to_precedence(toks[j]) > token_to_precedence(toks[k])
             \/ token_to_precedence(toks[j]) = token_to_precedence(toks[k]) /\ j <= k

\* the expression the grammar gives the chain toks[lo..hi]: operators of
\* higher precedence bind first, operators of equal precedence group to the left
RECURSIVE ChainTree(_, _, _)
ChainSplit(toks, lo, k, hi) ==
    ExprInfix(toks[k], ChainTree(toks, lo, k - 1), ChainTree(toks, k + 1, hi))
ChainTree(toks, lo, hi) ==
    IF lo >= hi THEN ExprIdentifier(toks[lo])
    ELSE ChainSplit(toks, lo, LastBinding(toks, lo, hi), hi)

\* C3: a chain of operands joined by operators the infix loop consumes
\* parses to one expression that nests by precedence and associates to the
\* left, with no diagnostic.
C3_PrecedenceAndLeftAssociativity ==
    (status = "done" /\ IsChainOver(tokens, InfixLoopOperators)) =>
        /\ program = <<StmtExpression(ChainTree(tokens, 1, Len(tokens)))>>
        /\ errors = <<>>

\* `a - b - c * d` parsed to Infix(-, Infix(-, a, b), Infix(*, c, d))
C3_Witness ==
    /\ status = "done"
    /\ tokens = <<"a", "-", "b", "-", "c", "*", "d">>
    /\ program = <<StmtExpression(
                     ExprInfix("-",
                         ExprInfix("-", ExprIdentifier("a"), ExprIdentifier("b")),
                         ExprInfix("*", ExprIdentifier("c"), ExprIdentifier("d"))))>>

\* C4: `a op b` parses to the one expression Infix(op, a, b) with no
\* diagnostic for every binary operator of the levels Pipe through Cons, and
\* does not for & and ^.
C4_EveryBinaryOperatorConsumed ==
    (status = "done" /\ Len(tokens) = 3 /\ tokens[1] = "a" /\ tokens[3] = "b") =>
        /\ tokens[2] \in BinaryOperators =>
             /\ program = <<StmtExpression(ExprInfix(tokens[2], ExprIdentifier("a"),
                                                     ExprIdentifier("b")))>>
             /\ errors = <<>>
        /\ tokens[2] \in BitwiseOperators =>
             program # <<StmtExpression(ExprInfix(tokens[2], ExprIdentifier("a"),
                                                  ExprIdentifier("b")))>>

\* C5: `if c { s1 ... sn } [else { t1 ... tm }]` parses to the one expression
\* If{c, [s1..sn], Some([t1..tm]) or None}: the consequence holds the
\* statements between its braces and a directly following else is attached.
C5_IfElseBlocks ==
    status = "done" =>
        \A f \in IfForms :
            tokens = IfTokens(f) => program = <<StmtExpression(IfAst(f))>>

\* the block of the form is non-empty and ends in a Return, or in an
\* Expression written without a semicolon
FnBlockValid(f) ==
    /\ f.body # <<>>
    /\ \/ f.body[Len(f.body)].ast.t = "Return"
       \/ f.body[Len(f.body)].ast.t = "Expression" /\ ~f.body[Len(f.body)].semi

\* the Program holds a Function node with the parameters and the block of the form
YieldsFunction(f) ==
    \E i \in 1..Len(program) :
        program[i] = StmtExpression(ExprFunction(f.parameters, BlockAst(f.body)))

YieldsNoFunction ==
    \A i \in 1..Len(program) :
        program[i].t = "Expression" => program[i].value.t # "Function"

\* C6: `fn params -> { ... }` yields a Function node if and only if its block
\* is non-empty and ends in a Return or in an Expression without semicolon;
\* otherwise it appends a diagnostic and yields no Function node.
C6_BlockFunctionValidation ==
    status = "done" =>
        \A f \in FnForms :
            tokens = FnTokens(f) =>
                IF FnBlockValid(f) THEN YieldsFunction(f)
                ELSE YieldsNoFunction /\ errors # <<>>

-----------------------------------------------------------------------------
(* Properties of type declarations.                                        *)

YieldsNoType == \A i \in 1..Len(program) : program[i].t # "Type"

\* C8: a well-formed union declaration yields Type(N, Union(...)) with the
\* variants in source order and a payload exactly for the variants written
\* with `of`; a well-formed record declaration with lowercase primitive field
\* types yields Type(N, Record(...)) with the fields in source order; both
\* without diagnostics.  A union with zero variants and a record without `;`
\* after `}` yield a diagnostic and no Type statement.
C8_DeclarationOrderAndPayloads ==
    status = "done" =>
        /\ \A f \in UnionForms :
             tokens = UnionTokens(f) =>
                 /\ UnionWellFormed(f) => program = <<UnionAst(f)>> /\ errors = <<>>
                 /\ f.payloads = <<>> => YieldsNoType /\ errors # <<>>
        /\ \A f \in RecordForms :
             tokens = RecordTokens(f) =>
                 /\ RecordWellFormed(f) => program = <<RecordAst(f)>> /\ errors = <<>>
                 /\ ~f.closed => YieldsNoType /\ errors # <<>>

\* `type N = | V of Int | W;` declared as Union([(V, Int), (W, none)])
C8_Witness ==
    /\ status = "done"
    /\ tokens = <<"type", "N", "=", "|", "V", "of", "Int", "|", "W", ";">>
    /\ program = <<StmtType("N", TypeUnion(<<(<<"V", Alias(BuiltIn("Int"), <<>>)>>),
                                            (<<"W", None>>)>>))>>
    /\ errors = <<>>

\* the name of a TypeReference, and of each of its parameters, is a built-in
\* constructor or an identifier that begins with an uppercase letter
RECURSIVE UppercaseLeading(_)
UppercaseLeading(ref) ==
    /\ ref.name.t = "BuiltIn" \/ FirstCharIsUppercase(ref.name.ident)
    /\ \A i \in 1..Len(ref.parameters) : UppercaseLeading(ref.parameters[i])

\* the TypeReferences of the aliases and the union payloads of a statement
AnnotationsOf(stmt) ==
    IF stmt.t # "Type" THEN {}
    ELSE IF stmt.def.t = "Alias" THEN {stmt.def.ref}
    ELSE IF stmt.def.t = "Union"
    THEN {stmt.def.variants[i][2] : i \in 1..Len(stmt.def.variants)} \ {None}
    ELSE {}

\* C9: every TypeReference parse_type_annotation returns in union or alias
\* context has an uppercase-leading name, whatever the first character of
\* the identifier; an alias of a lowercase-leading custom identifier appends
\* a diagnostic and yields no Type statement.
C9_UppercaseLeadingTypeNames ==
    status = "done" =>
        /\ \A i \in 1..Len(program) :
             \A ref \in AnnotationsOf(program[i]) : UppercaseLeading(ref)
        /\ \A f \in AliasForms :
             (tokens = AliasTokens(f)
              /\ FirstCharIsLowercase(f.ref.toks[Len(f.ref.toks)])) =>
                 YieldsNoType /\ errors # <<>>

-----------------------------------------------------------------------------
(* Properties of function literals, calls and statement sequences.         *)

\* C11: `fn p1, ..., pn -> e;` yields Function{[p1..pn], [Expression(e)]}
\* with e parsed at Lowest precedence and the semicolon consumed, so that a
\* statement after the semicolon is parsed next; when the token after e is
\* not a semicolon, a diagnostic is appended and no Function node produced.
C11_SingleLineFunction ==
    status = "done" =>
        \A f \in SingleLineForms :
            tokens = SingleLineTokens(f) =>
                /\ f.tail = <<";">> => program = <<SingleLineAst(f)>> /\ errors = <<>>
                /\ f.tail = <<";", "y">> =>
                     /\ program = <<SingleLineAst(f), StmtExpression(ExprIdentifier("y"))>>
                     /\ errors = <<>>
                /\ f.tail \in {<<>>, <<")">>} =>
                     /\ YieldsNoFunction
                     /\ \E i \in 1..Len(errors) :
                          errors[i] = Log("Single-line function body must end with semicolon", "")

\* `fn x, Unit -> 1 + 2 * 3;` parsed to the Function of the body 1 + (2 * 3)
C11_Witness ==
    /\ status = "done"
    /\ tokens = <<"fn", "x", ",", "Unit", "->", "1", "+", "2", "*", "3", ";">>
    /\ program = <<StmtExpression(ExprFunction(<<"x", "Unit">>,
                     <<StmtExpression(
                         ExprInfix("+", ExprLiteral("Integer", 1),
                                   ExprInfix("*", ExprLiteral("Integer", 2),
                                             ExprLiteral("Integer", 3))))>>))>>
    /\ curr = End

\* C12: `f(a1, ..., an)`, n >= 0, parses to Call{f, [a1..an]} with the
\* arguments in source order, each parsed at Lowest precedence; the call
\* binds tighter than a prefix and a binary operator and chains to the left;
\* without the closing `)` an UnexpectedToken diagnostic expecting `)` is
\* appended and no Call node is produced.
C12_CallExpression ==
    status = "done" =>
        \A f \in CallForms :
            tokens = CallTokens(f) =>
                IF f.closed
                THEN program = <<StmtExpression(CallAst(f))>> /\ errors = <<>>
                ELSE program = <<>> /\ errors = <<UnexpectedToken(")", End)>>

\* the form is `f(` (or `-f(`, `a + f(`): neither an argument nor `)` follows
CallLacksArgument(f) == ~f.closed /\ f.shape # "callee" /\ f.arguments = <<>>

\* C12 with the diagnostics of the unclosed call told apart: as C12 for a
\* closed call; a call left open after at least one argument appends the
\* UnexpectedToken diagnostic expecting `)`; a call left open right after
\* `(` appends the diagnostic that the token found there starts no
\* expression; neither produces a Call node.
C12_CallExpressionByDiagnostic ==
    status = "done" =>
        \A f \in CallForms :
            tokens = CallTokens(f) =>
                IF f.closed
                THEN program = <<StmtExpression(CallAst(f))>> /\ errors = <<>>
                ELSE /\ program = <<>>
                     /\ errors = IF CallLacksArgument(f)
                                 THEN <<Log("No prefix parse function found", End)>>
                                 ELSE <<UnexpectedToken(")", End)>>

\* `f(a + b, 1)(b)` parsed to Call(Call(f, [a + b, 1]), [b])
C12_Witness ==
    /\ status = "done"
    /\ tokens = <<"f", "(", "a", "+", "b", ",", "1", ")", "(", "b", ")">>
    /\ program = <<StmtExpression(
                     ExprCall(ExprCall(ExprIdentifier("f"),
                                       <<ExprInfix("+", ExprIdentifier("a"),
                                                   ExprIdentifier("b")),
                                         ExprLiteral("Integer", 1)>>),
                              <<ExprIdentifier("b")>>))>>

\* C14: a statement that starts directly after the closing brace of a block
\* is parsed as its own statement: the statements of the stream reach the
\* Program, in source order, with no diagnostic.
C14_StatementAfterBlock ==
    status = "done" =>
        \A f \in SequenceForms :
            tokens = SequenceTokens(f) => program = SequenceAst(f) /\ errors = <<>>

\* C15: once a single-line function literal has consumed its semicolon, no
\* token after the semicolon is absorbed into the same expression: the first
\* statement of the Program is the Function.
C15_SemicolonEndsExpression ==
    status = "done" =>
        \A f \in SingleLineForms :
            (tokens = SingleLineTokens(f) /\ f.tail # <<>> /\ f.tail[1] = ";") =>
                /\ program # <<>>
                /\ program[1] = SingleLineAst(f)

\* C13: in alias, union payload and record field position, a parametrized
\* constructor followed by one valid type reference parses to a
\* TypeReference with that constructor and exactly one nested parameter, to
\* any depth; a second type reference after the first is not absorbed.
C13_ParametrizedConstructors ==
    status = "done" =>
        /\ \A f \in AliasForms :
             (tokens = AliasTokens(f) /\ f.closed /\ f.ref.valid) =>
                 program = <<StmtType("N", TypeAlias(f.ref.ast))>> /\ errors = <<>>
        /\ \A f \in UnionForms :
             (tokens = UnionTokens(f) /\ UnionWellFormed(f)) =>
                 program = <<UnionAst(f)>> /\ errors = <<>>
        /\ \A f \in RecordForms :
             (tokens = RecordTokens(f) /\ f.closed
              /\ \A i \in 1..Len(f.fields) : f.fields[i].valid) =>
                 program = <<RecordAst(f)>> /\ errors = <<>>
        /\ \A c \in ParametrizedTypeTokens :
             tokens = SurplusTokens(c) =>
                 \A i \in 1..Len(program) : \A ref \in AnnotationsOf(program[i]) :
                     Len(ref.parameters) = 1

=============================================================================
